---- MODULE Spec2Model ----
(***************************************************************************)
(* The rollout notebook 3_my_rollout_model.ipynb as a state machine: one   *)
(* action per code cell, executed top to bottom.  Tables (GeoDataFrame,    *)
(* DataFrame) are records of an index, a column list and one row function  *)
(* per row.  Scores are fixed-point integers: One stands for 1.0.          *)
(***************************************************************************)
EXTENDS Integers, Sequences, FiniteSets, TLC

VARIABLES
  pc,                            \* the last cell that completed, or "failed"
  gridFile,                      \* the rollout grid file (input)
  tileData,                      \* raw features the datasets hold per quadkey
  aoi, rollout_aoi,              \* the loaded grid and its annotated copy
  features, raw_features,        \* the feature tables
  model,                         \* the unpickled model: feature vector -> score
  rollout_output_with_features,  \* the grid with the features joined back
  outputFile,                    \* <<>> or <<the first output file>>
  outputWithFeaturesFile,        \* <<>> or <<the second output file>>
  binRuns,                       \* times the binning cell has completed
  environ,                       \* os.environ: a variable is <<>> (unset) or <<value>>
  username, password,            \* <<>> before assignment, then <<value>>
  prompts,                       \* the interactive prompts shown so far
  tokenRequests,                 \* the token requests sent, with their credentials
  savedPlots,                    \* the PNG maps saved so far
  done,                          \* the cells that completed, in completion order
  failure                        \* "" or the cell whose exception stopped the run

loginVars == <<environ, username, password, prompts, tokenRequests>>

vars == <<pc, gridFile, tileData, aoi, rollout_aoi, features, raw_features,
          model, rollout_output_with_features, outputFile, outputWithFeaturesFile,
          binRuns, loginVars, savedPlots, done, failure>>

(* ------------------------------ bounds --------------------------------- *)
\* rows of the rollout grid in a full run of the notebook
MaxRows == 3
\* raw feature values are 0..MaxRaw
MaxRaw == 2
\* fixed-point resolution of a score: One is the score 1.0
One == 4
\* rows of the score column when the binning cell is studied on its own
MaxBinRows == 5
\* executions of the binning cell that are counted
MaxBinRuns == 3

\* how many times the feature-split cell is executed at most
MaxSplitRuns == 3

(* --------------------------- column names ------------------------------ *)
\* A column name is the sequence of its parts, so that the test
\* `"_scaled" in col` is a test on the parts of the name.
QUADKEY == <<"quadkey">>
POP_COUNT == <<"pop_count">>
GEOMETRY == <<"geometry">>
WEALTH_INDEX == <<"Predicted Relative Wealth Index">>
WEALTH_CATEGORY == <<"Predicted Wealth Category (quintile)">>
SCALED_SUFFIX == "_scaled"

\* raw feature columns built by generate_features (one stands for the 61)
RawFeatureNames == << <<"poi_count">> >>

ScaledName(col) == col \o <<SCALED_SUFFIX>>

\* "_scaled" in col
ContainsScaled(col) == \E i \in 1..Len(col) : col[i] = SCALED_SUFFIX

(* ------------------------------ tables --------------------------------- *)
Range(s) == {s[i] : i \in 1..Len(s)}

NoFrame == [index |-> <<>>, columns |-> <<>>, data |-> <<>>]

NRows(df) == Len(df.data)

\* RangeIndex(start=0, stop=n)
RangeIndex(n) == [i \in 1..n |-> i - 1]

\* col in df.columns
HasColumn(df, col) == col \in Range(df.columns)

\* df[col] as a sequence in row order
ColumnValues(df, col) == [i \in 1..NRows(df) |-> df.data[i][col]]

\* df.values: the bare matrix, rows in row order, values in column order
Values(df) ==
  [i \in 1..NRows(df) |-> [j \in 1..Len(df.columns) |-> df.data[i][df.columns[j]]]]

\* df[col] = vals: overwrites the column when it exists, appends it otherwise
SetColumn(df, col, vals) ==
  [index |-> df.index,
   columns |-> IF col \in Range(df.columns) THEN df.columns
               ELSE Append(df.columns, col),
   data |-> [i \in 1..NRows(df) |->
               [c \in (DOMAIN df.data[i]) \cup {col} |->
                  IF c = col THEN vals[i] ELSE df.data[i][c]]]]

\* df[cols]: the listed columns, in the listed order
SelectColumns(df, cols) ==
  [index |-> df.index,
   columns |-> cols,
   data |-> [i \in 1..NRows(df) |-> [c \in Range(cols) |-> df.data[i][c]]]]

\* marker of a missing value (a left join with no matching right row)
NaN == "NaN"

\* positions of the rows of df whose index label is k, in row order
Matches(df, k) ==
  SelectSeq([j \in 1..NRows(df) |-> j], LAMBDA j : df.index[j] = k)

\* the joined rows a left row i gives: one per matching right row, or one
\* padded with NaN when no right row has its index label
JoinedRowsFor(left, right, i) ==
  LET m == Matches(right, left.index[i])
      blank == [c \in Range(right.columns) |-> NaN]
  IN IF m = <<>>
       THEN << [idx |-> left.index[i], row |-> left.data[i] @@ blank] >>
       ELSE [t \in 1..Len(m) |->
               [idx |-> left.index[i], row |-> left.data[i] @@ right.data[m[t]]]]

RECURSIVE JoinRows(_, _, _)
JoinRows(left, right, i) ==
  IF i > NRows(left) THEN <<>>
  ELSE JoinedRowsFor(left, right, i) \o JoinRows(left, right, i + 1)

\* left.join(right) raises ValueError when the two share a column name
ColumnsOverlap(left, right) == Range(left.columns) \cap Range(right.columns) # {}

\* every left row paired with every right row (a join on a constant key)
CrossJoin(left, right) ==
  LET n == NRows(right)
  IN [index |-> [p \in 1..(NRows(left) * n) |-> left.index[((p - 1) \div n) + 1]],
      columns |-> left.columns \o right.columns,
      data |-> [p \in 1..(NRows(left) * n) |->
                  left.data[((p - 1) \div n) + 1] @@ right.data[((p - 1) % n) + 1]]]

\* left.join(right): a left join on the index, columns of left then of right
Join(left, right) ==
  LET rows == JoinRows(left, right, 1)
  IN [index |-> [p \in 1..Len(rows) |-> rows[p].idx],
      columns |-> left.columns \o right.columns,
      data |-> [p \in 1..Len(rows) |-> rows[p].row]]

(* --------------------------- GeoJSON files ----------------------------- *)
\* A GeoJSON file is a list of features, each with a properties object and
\* a geometry; the file has no index.

\* the properties written for the file, in column order
PropertyColumns(df) == SelectSeq(df.columns, LAMBDA c : c # GEOMETRY)

\* to_file with the index written as one more property
ToFileWithIndex(df) ==
  LET props == <<<<"index">>>> \o PropertyColumns(df)
  IN [properties |-> props,
      features |-> [i \in 1..NRows(df) |->
         [properties |-> [c \in Range(props) |->
                             IF c = <<"index">> THEN df.index[i] ELSE df.data[i][c]],
          geometry |-> df.data[i][GEOMETRY]]]]

\* df.to_file(path, driver="GeoJSON", index=False)
ToFile(df) ==
  LET props == PropertyColumns(df)
  IN [properties |-> props,
      features |-> [i \in 1..NRows(df) |->
         [properties |-> [c \in Range(props) |-> df.data[i][c]],
          geometry |-> df.data[i][GEOMETRY]]]]

\* gpd.read_file that loses the last feature of the file
ReadFileDropLast(file) ==
  LET n == Len(file.features) - 1
  IN [index |-> RangeIndex(n),
      columns |-> Append(file.properties, GEOMETRY),
      data |-> [i \in 1..n |->
                  file.features[i].properties
                    @@ [c \in {GEOMETRY} |-> file.features[i].geometry]]]

\* gpd.read_file(path): a RangeIndex, the properties as columns, geometry last
ReadFile(file) ==
  [index |-> RangeIndex(Len(file.features)),
   columns |-> Append(file.properties, GEOMETRY),
   data |-> [i \in 1..Len(file.features) |->
               file.features[i].properties
                 @@ [c \in {GEOMETRY} |-> file.features[i].geometry]]]

\* the polygon of a tile is fixed by its quadkey
TileGeometry(qk) == <<"POLYGON", qk>>

\* the grid file the previous notebook wrote for the tiles qks (in this order):
\* quadkey, pop_count (standing for the six attribute columns) and geometry
GridFile(qks) ==
  [properties |-> <<QUADKEY, POP_COUNT>>,
   features |-> [i \in 1..Len(qks) |->
      [properties |-> [c \in {QUADKEY, POP_COUNT} |->
                          IF c = QUADKEY THEN qks[i] ELSE 100 * qks[i]],
       geometry |-> TileGeometry(qks[i])]]]

\* the tiles 1..n in ascending and in descending quadkey order
GridFiles(maxRows) ==
  {GridFile([i \in 1..n |-> i]) : n \in 1..maxRows}
    \cup {GridFile([i \in 1..n |-> n + 1 - i]) : n \in 1..maxRows}

(* ------------------------- feature generation -------------------------- *)
SeqMin(vals) == CHOOSE m \in Range(vals) : \A v \in Range(vals) : m <= v
SeqMax(vals) == CHOOSE m \in Range(vals) : \A v \in Range(vals) : m >= v

\* MinMaxScaler().fit_transform on one column: (x - min) / (max - min) as the
\* exact fraction n/d; a column of equal values has its range taken as 1
MinMaxScaler(vals) ==
  LET lo == SeqMin(vals)
      hi == SeqMax(vals)
      d == IF hi = lo THEN 1 ELSE hi - lo
  IN [i \in 1..Len(vals) |-> [n |-> vals[i] - lo, d |-> d]]

\* the raw column a scaled column was computed from
RawNameOf(col) == SubSeq(col, 1, Len(col) - 1)

\* generate_features(grid, scaled_only=False, sklearn_scaler=MinMaxScaler,
\* features_only=True, use_aoi_quadkey=True): one row per row of the grid, in
\* its order and under its index, holding for the row's tile the raw features
\* (data[quadkey]) and their scaling over the grid; the grid is left as it is
GenerateFeatures(grid, data) ==
  LET raw(c) == [i \in 1..NRows(grid) |-> data[grid.data[i][QUADKEY]][c]]
      scaledCols == [j \in 1..Len(RawFeatureNames) |-> ScaledName(RawFeatureNames[j])]
      cols == RawFeatureNames \o scaledCols
  IN [index |-> grid.index,
      columns |-> cols,
      data |-> [i \in 1..NRows(grid) |->
                  [c \in Range(cols) |->
                     IF ContainsScaled(c) THEN MinMaxScaler(raw(RawNameOf(c)))[i]
                     ELSE raw(c)[i]]]]

\* what the external datasets can hold for the tiles of a grid
TileDataSets(grid) ==
  [{grid.data[i][QUADKEY] : i \in 1..NRows(grid)} -> [Range(RawFeatureNames) -> 0..MaxRaw]]

\* features[[col for col in features.columns if "_scaled" not in col]]
RawFeaturesOf(df) ==
  SelectColumns(df, SelectSeq(df.columns, LAMBDA c : ~ContainsScaled(c)))

\* the scaled split with the test negated
ScaledFeaturesOfNegated(df) ==
  SelectColumns(df, SelectSeq(df.columns, LAMBDA c : ~ContainsScaled(c)))

\* features[[col for col in features.columns if "_scaled" in col]]
ScaledFeaturesOf(df) ==
  SelectColumns(df, SelectSeq(df.columns, LAMBDA c : ContainsScaled(c)))

(* ------------------------------ the model ------------------------------ *)
\* what a regression model can return for a feature vector: any score,
\* also below 0 and above One
ModelOutputs == (0 - 1)..(One + 1)

\* the outputs drawn in a full run of the notebook
CoarseOutputs == {0 - 1, 0, One, One + 1}

\* model.predict(X): the model's output for each row vector of the matrix
Predict(m, X) == [i \in 1..Len(X) |-> m[X[i]]]

(* ------------------------------ binning -------------------------------- *)
\* labels of the five bins, lowest bin first
WealthLabels == <<"E", "D", "C", "B", "A">>

Sorted(vals) == SortSeq(vals, LAMBDA a, b : a < b)

\* 5 times the k-th quintile (k in 0..5) of the values, by linear interpolation
\* between the two closest ranks
Quintile5(vals, k) ==
  LET x == Sorted(vals)
      pos == k * (Len(x) - 1)
      j == (pos \div 5) + 1
      r == pos % 5
  IN IF r = 0 THEN 5 * x[j] ELSE 5 * x[j] + r * (x[j + 1] - x[j])

\* the six bin edges (times 5) are strictly increasing
BinEdgesUnique(vals) ==
  /\ Len(vals) > 0
  /\ \A k \in 0..4 : Quintile5(vals, k) < Quintile5(vals, k + 1)

\* five bins of equal width between the lowest and the highest value
EqualWidthBins(vals) ==
  LET lo == SeqMin(vals)
      w == SeqMax(vals) - lo
  IN [i \in 1..Len(vals) |->
        CHOOSE k \in 1..5 :
          /\ 5 * (vals[i] - lo) <= k * w
          /\ \A l \in 1..(k - 1) : 5 * (vals[i] - lo) > l * w]

\* categorize_wealth_index(series): the quintile bin 1..5 of each value, bin k
\* being (edge k-1, edge k] and the lowest value belonging to bin 1
CategorizeWealthIndex(vals) ==
  [i \in 1..Len(vals) |->
     CHOOSE k \in 1..5 :
       /\ 5 * vals[i] <= Quintile5(vals, k)
       /\ \A l \in 1..(k - 1) : 5 * vals[i] > Quintile5(vals, l)]

\* .astype(str): each category becomes its label
AsTypeStr(cats) == [i \in 1..Len(cats) |-> WealthLabels[cats[i]]]

(* ------------------------------ the cells ------------------------------ *)
\* rollout_aoi[WEALTH_INDEX] = model.predict(features.values), the scores
\* stored over an attribute column of the grid instead
PredictIntoPopCount(grid, m, feats) ==
  SetColumn(grid, POP_COUNT, Predict(m, Values(feats)))

\* the scores assigned from a feature table taken in the reverse row order
PredictMisalignedFrame(grid, m, feats) ==
  SetColumn(grid, WEALTH_INDEX,
            Predict(m, [i \in 1..NRows(feats) |-> Values(feats)[NRows(feats) + 1 - i]]))

\* rollout_aoi["Predicted Relative Wealth Index"] = model.predict(features.values)
PredictFrame(grid, m, feats) ==
  SetColumn(grid, WEALTH_INDEX, Predict(m, Values(feats)))

\* the binning cell with the category column appended on every run
BinningAppendFrame(grid) ==
  LET new == SetColumn(grid, WEALTH_CATEGORY,
               AsTypeStr(CategorizeWealthIndex(ColumnValues(grid, WEALTH_INDEX))))
  IN [new EXCEPT !.columns = Append(grid.columns, WEALTH_CATEGORY)]

\* the binning cell cutting the score range into five bins of equal width
BinningEqualWidthFrame(grid) ==
  SetColumn(grid, WEALTH_CATEGORY,
            AsTypeStr(EqualWidthBins(ColumnValues(grid, WEALTH_INDEX))))

\* the binning cell reading the population column instead of the score
BinningOfPopCountFrame(grid) ==
  SetColumn(grid, WEALTH_CATEGORY,
            AsTypeStr(CategorizeWealthIndex(ColumnValues(grid, POP_COUNT))))

\* rollout_aoi["Predicted Wealth Category (quintile)"] =
\*     categorize_wealth_index(rollout_aoi["Predicted Relative Wealth Index"]).astype(str)
BinningFrame(grid) ==
  SetColumn(grid, WEALTH_CATEGORY,
            AsTypeStr(CategorizeWealthIndex(ColumnValues(grid, WEALTH_INDEX))))

\* the join with the raw features left out
JoinScaledOnly(grid, raw, feats) == Join(grid, feats)

\* rollout_aoi.join(raw_features).join(features)
JoinFeatures(grid, raw, feats) == Join(Join(grid, raw), feats)

(* ----------------------------- credentials ----------------------------- *)
\* the strings a credential can be, the empty string among them
CredentialValues == {"", "alice", "s3cret"}

\* an environment variable is unset, <<>>, or set to a string, <<value>>
EnvironValues == {<<>>} \cup {<<v>> : v \in CredentialValues}

Environs == [EOG_USER : EnvironValues, EOG_PASSWORD : EnvironValues]

\* os.environ.get(name, None), None being <<>>
EnvironGet(name) == environ[name]

\* `value or input(...)`: the empty string prompts as well
IsFalsy(value) == value = <<>> \/ value = <<"">>

\* `value is not None` fails
IsNone(value) == value = <<>>

\* username = os.environ.get("EOG_USER", None)
\* username = username if username is not None else input("Username?")
GetUsername ==
  /\ pc = "init"
  /\ IF IsNone(EnvironGet("EOG_USER"))
       THEN /\ \E typed \in CredentialValues : username' = <<typed>>
            /\ prompts' = Append(prompts, "Username?")
       ELSE /\ username' = EnvironGet("EOG_USER")
            /\ prompts' = prompts
  /\ pc' = "have_username"
  /\ UNCHANGED <<environ, password, tokenRequests, savedPlots, done, failure>>
  /\ UNCHANGED <<binRuns, gridFile, tileData, aoi, rollout_aoi, features, raw_features, model,
                 rollout_output_with_features, outputFile, outputWithFeaturesFile>>

\* password = os.environ.get("EOG_PASSWORD", None)
\* password = password if password is not None else getpass.getpass("Password?")
GetPassword ==
  /\ pc = "have_username"
  /\ IF IsNone(EnvironGet("EOG_PASSWORD"))
       THEN /\ \E typed \in CredentialValues : password' = <<typed>>
            /\ prompts' = Append(prompts, "Password?")
       ELSE /\ password' = EnvironGet("EOG_PASSWORD")
            /\ prompts' = prompts
  /\ pc' = "have_password"
  /\ UNCHANGED <<environ, username, tokenRequests, savedPlots, done, failure>>
  /\ UNCHANGED <<binRuns, gridFile, tileData, aoi, rollout_aoi, features, raw_features, model,
                 rollout_output_with_features, outputFile, outputWithFeaturesFile>>

\* the request get_eog_access_token(username, password, save_token=True) sends
TokenRequest == [username |-> username[1], password |-> password[1]]

\* access_token = nightlights.get_eog_access_token(...): the token is granted
GetAccessToken ==
  /\ pc = "have_password"
  /\ tokenRequests' = Append(tokenRequests, TokenRequest)
  /\ pc' = "start"
  /\ done' = Append(done, "credentials")
  /\ UNCHANGED <<environ, username, password, prompts, savedPlots, failure>>
  /\ UNCHANGED <<binRuns, gridFile, tileData, aoi, rollout_aoi, features, raw_features, model,
                 rollout_output_with_features, outputFile, outputWithFeaturesFile>>

\* the same request with credentials the service rejects: the call raises
CredentialsRejected ==
  /\ pc = "have_password"
  /\ tokenRequests' = Append(tokenRequests, TokenRequest)
  /\ pc' = "failed"
  /\ failure' = "credentials"
  /\ UNCHANGED <<environ, username, password, prompts, savedPlots, done>>
  /\ UNCHANGED <<binRuns, gridFile, tileData, aoi, rollout_aoi, features, raw_features, model,
                 rollout_output_with_features, outputFile, outputWithFeaturesFile>>

\* nothing of the pipeline has run yet
NothingLoaded ==
  /\ tileData = <<>>
  /\ aoi = NoFrame
  /\ rollout_aoi = NoFrame
  /\ features = NoFrame
  /\ raw_features = NoFrame
  /\ model = <<>>
  /\ rollout_output_with_features = NoFrame
  /\ outputFile = <<>>
  /\ outputWithFeaturesFile = <<>>
  /\ binRuns = 0
  /\ savedPlots = <<>>
  /\ failure = ""

InitLogin ==
  /\ pc = "init"
  /\ environ \in Environs
  /\ username = <<>>
  /\ password = <<>>
  /\ prompts = <<>>
  /\ tokenRequests = <<>>
  /\ done = <<>>
  /\ gridFile = GridFile(<<1>>)
  /\ NothingLoaded

NextLogin == GetUsername \/ GetPassword \/ GetAccessToken \/ CredentialsRejected

SpecLogin == InitLogin /\ [][NextLogin]_vars

\* the credential cell has completed with both variables set
LoggedIn ==
  /\ environ = [EOG_USER |-> <<"alice">>, EOG_PASSWORD |-> <<"s3cret">>]
  /\ username = <<"alice">>
  /\ password = <<"s3cret">>
  /\ prompts = <<>>
  /\ tokenRequests = <<[username |-> "alice", password |-> "s3cret"]>>

Init ==
  /\ pc = "start"
  /\ LoggedIn
  /\ savedPlots = <<>>
  /\ done = <<"credentials">>
  /\ failure = ""
  /\ gridFile \in GridFiles(MaxRows)
  /\ tileData = <<>>
  /\ aoi = NoFrame
  /\ rollout_aoi = NoFrame
  /\ features = NoFrame
  /\ raw_features = NoFrame
  /\ model = <<>>
  /\ rollout_output_with_features = NoFrame
  /\ outputFile = <<>>
  /\ outputWithFeaturesFile = <<>>
  /\ binRuns = 0

\* gpd.read_file(rollout_grids_path) raises: there is no file at the path
GridFileMissing ==
  /\ pc = "start"
  /\ pc' = "failed"
  /\ failure' = "grid_load"
  /\ UNCHANGED <<loginVars, savedPlots, done>>
  /\ UNCHANGED <<binRuns, gridFile, tileData, aoi, rollout_aoi, features, raw_features, model,
                 rollout_output_with_features, outputFile, outputWithFeaturesFile>>

\* aoi = gpd.read_file(rollout_grids_path)
ReadGridCell ==
  /\ pc = "start"
  /\ aoi' = ReadFile(gridFile)
  /\ pc' = "loaded"
  /\ done' = Append(done, "grid_load")
  /\ UNCHANGED <<loginVars, savedPlots, failure>>
  /\ UNCHANGED <<binRuns, gridFile, tileData, rollout_aoi, features, raw_features, model,
                 rollout_output_with_features, outputFile, outputWithFeaturesFile>>

\* rollout_aoi = aoi.copy(); features = generate_features(rollout_aoi, ...)
GenerateFeaturesCell ==
  /\ pc = "loaded"
  /\ rollout_aoi' = aoi
  /\ \E data \in TileDataSets(aoi) :
       /\ tileData' = data
       /\ features' = GenerateFeatures(aoi, data)
  /\ pc' = "featured"
  /\ done' = Append(done, "feature_generation")
  /\ UNCHANGED <<loginVars, savedPlots, failure>>
  /\ UNCHANGED <<binRuns, gridFile, aoi, raw_features, model,
                 rollout_output_with_features, outputFile, outputWithFeaturesFile>>

\* raw_features = features[[... not in col]]; features = features[[... in col]]
SplitFeaturesCell ==
  /\ pc = "featured"
  /\ raw_features' = RawFeaturesOf(features)
  /\ features' = ScaledFeaturesOf(features)
  /\ pc' = "split"
  /\ done' = Append(done, "feature_split")
  /\ UNCHANGED <<loginVars, savedPlots, failure>>
  /\ UNCHANGED <<binRuns, gridFile, tileData, aoi, rollout_aoi, model,
                 rollout_output_with_features, outputFile, outputWithFeaturesFile>>

\* model = pickle.load(f): some function of the feature vector
LoadModelCell ==
  /\ pc = "split"
  /\ model' \in [Range(Values(features)) -> CoarseOutputs]
  /\ pc' = "model_loaded"
  /\ done' = Append(done, "model_load")
  /\ UNCHANGED <<loginVars, savedPlots, failure>>
  /\ UNCHANGED <<binRuns, gridFile, tileData, aoi, rollout_aoi, features, raw_features,
                 rollout_output_with_features, outputFile, outputWithFeaturesFile>>

\* a model fitted on one feature more than the notebook generates
OtherShapeModel(feats) ==
  [v \in {Append(w, [n |-> 0, d |-> 1]) : w \in Range(Values(feats))} |-> 0]

\* predict accepts X only when its width is the width the model was fitted on
ShapeMatches(m, feats) == \A v \in DOMAIN m : Len(v) = Len(feats.columns)

\* model = pickle.load(f) on a pickle of a model of another shape
LoadOtherModelCell ==
  /\ pc = "split"
  /\ model' = OtherShapeModel(features)
  /\ pc' = "model_loaded"
  /\ done' = Append(done, "model_load")
  /\ UNCHANGED <<loginVars, savedPlots, failure>>
  /\ UNCHANGED <<binRuns, gridFile, tileData, aoi, rollout_aoi, features, raw_features,
                 rollout_output_with_features, outputFile, outputWithFeaturesFile>>

\* open(MODEL_SAVE_PATH, "rb") raises FileNotFoundError
ModelFileMissing ==
  /\ pc = "split"
  /\ pc' = "failed"
  /\ failure' = "model_load"
  /\ UNCHANGED <<loginVars, savedPlots, done>>
  /\ UNCHANGED <<binRuns, gridFile, tileData, aoi, rollout_aoi, features, raw_features, model,
                 rollout_output_with_features, outputFile, outputWithFeaturesFile>>

\* rollout_aoi["Predicted Relative Wealth Index"] = model.predict(features.values);
\* predict raises ValueError on a matrix of another width
PredictCell ==
  /\ pc = "model_loaded"
  /\ IF ShapeMatches(model, features)
       THEN /\ rollout_aoi' = PredictFrame(rollout_aoi, model, features)
            /\ pc' = "predicted"
            /\ done' = Append(done, "inference")
            /\ failure' = failure
       ELSE /\ rollout_aoi' = rollout_aoi
            /\ pc' = "failed"
            /\ done' = done
            /\ failure' = "inference"
  /\ UNCHANGED <<loginVars, savedPlots>>
  /\ UNCHANGED <<binRuns, gridFile, tileData, aoi, features, raw_features, model,
                 rollout_output_with_features, outputFile, outputWithFeaturesFile>>

\* the binning cell; the quantile cut raises ValueError when two bin edges
\* are equal, and the column is then not assigned
BinningCell ==
  /\ pc = "predicted"
  /\ IF BinEdgesUnique(ColumnValues(rollout_aoi, WEALTH_INDEX))
       THEN /\ rollout_aoi' = BinningFrame(rollout_aoi)
            /\ binRuns' = binRuns + 1
            /\ pc' = "binned"
            /\ done' = Append(done, "binning")
            /\ failure' = failure
       ELSE /\ rollout_aoi' = rollout_aoi
            /\ binRuns' = binRuns
            /\ pc' = "failed"
            /\ done' = done
            /\ failure' = "binning"
  /\ UNCHANGED <<loginVars, savedPlots>>
  /\ UNCHANGED <<gridFile, tileData, aoi, features, raw_features, model,
                 rollout_output_with_features, outputFile, outputWithFeaturesFile>>

\* the binning cell executed again on the grid it has already labelled
RerunBinningCell ==
  /\ pc = "binned"
  /\ binRuns < MaxBinRuns
  /\ BinEdgesUnique(ColumnValues(rollout_aoi, WEALTH_INDEX))
  /\ rollout_aoi' = BinningFrame(rollout_aoi)
  /\ binRuns' = binRuns + 1
  /\ done' = Append(done, "binning")
  /\ UNCHANGED <<loginVars, savedPlots, failure>>
  /\ UNCHANGED <<pc, gridFile, tileData, aoi, features, raw_features, model,
                 rollout_output_with_features, outputFile, outputWithFeaturesFile>>

\* to_file raises and the exception is caught: the run goes on without the file
SaveOutputFailsSwallowed ==
  /\ pc = "binned"
  /\ pc' = "saved"
  /\ failure' = "export"
  /\ UNCHANGED <<loginVars, savedPlots, done>>
  /\ UNCHANGED <<binRuns, gridFile, tileData, aoi, rollout_aoi, features, raw_features, model,
                 rollout_output_with_features, outputFile, outputWithFeaturesFile>>

\* rollout_aoi.to_file(...) raises (no permission, disk full): nothing is written
SaveOutputFails ==
  /\ pc = "binned"
  /\ pc' = "failed"
  /\ failure' = "export"
  /\ UNCHANGED <<loginVars, savedPlots, done>>
  /\ UNCHANGED <<binRuns, gridFile, tileData, aoi, rollout_aoi, features, raw_features, model,
                 rollout_output_with_features, outputFile, outputWithFeaturesFile>>

\* the export cell placed ahead of the binning cell
SaveOutputBeforeBinningCell ==
  /\ pc = "predicted"
  /\ outputFile' = <<ToFile(rollout_aoi)>>
  /\ pc' = "saved"
  /\ done' = Append(done, "export")
  /\ UNCHANGED <<loginVars, savedPlots, failure>>
  /\ UNCHANGED <<binRuns, gridFile, tileData, aoi, rollout_aoi, features, raw_features, model,
                 rollout_output_with_features, outputWithFeaturesFile>>

\* rollout_aoi.to_file("...-rollout-output.geojson", driver="GeoJSON", index=False)
SaveOutputCell ==
  /\ pc = "binned"
  /\ outputFile' = <<ToFile(rollout_aoi)>>
  /\ pc' = "saved"
  /\ done' = Append(done, "export")
  /\ UNCHANGED <<loginVars, savedPlots, failure>>
  /\ UNCHANGED <<binRuns, gridFile, tileData, aoi, rollout_aoi, features, raw_features, model,
                 rollout_output_with_features, outputWithFeaturesFile>>

\* rollout_output_with_features = rollout_aoi.join(raw_features).join(features)
\* rollout_output_with_features.to_file("...-rollout-output-with-features.geojson")
SaveWithFeaturesCell ==
  /\ pc = "saved"
  /\ IF ColumnsOverlap(rollout_aoi, raw_features)
        \/ ColumnsOverlap(Join(rollout_aoi, raw_features), features)
       THEN /\ pc' = "failed"
            /\ failure' = "export_with_features"
            /\ UNCHANGED <<rollout_output_with_features, outputWithFeaturesFile, done>>
       ELSE /\ rollout_output_with_features' =
                 JoinFeatures(rollout_aoi, raw_features, features)
            /\ outputWithFeaturesFile' = <<ToFile(rollout_output_with_features')>>
            /\ pc' = "saved_with_features"
            /\ done' = Append(done, "export_with_features")
            /\ failure' = failure
  /\ UNCHANGED <<loginVars, savedPlots>>
  /\ UNCHANGED <<binRuns, gridFile, tileData, aoi, rollout_aoi, features, raw_features, model,
                 outputFile>>

\* the join succeeds and to_file raises: the joined table is bound, no file
SaveWithFeaturesFails ==
  /\ pc = "saved"
  /\ ~ColumnsOverlap(rollout_aoi, raw_features)
  /\ ~ColumnsOverlap(Join(rollout_aoi, raw_features), features)
  /\ rollout_output_with_features' = JoinFeatures(rollout_aoi, raw_features, features)
  /\ pc' = "failed"
  /\ failure' = "export_with_features"
  /\ UNCHANGED <<loginVars, savedPlots, done>>
  /\ UNCHANGED <<binRuns, gridFile, tileData, aoi, rollout_aoi, features, raw_features, model,
                 outputFile, outputWithFeaturesFile>>

\* rollout_aoi[["Predicted Relative Wealth Index"]].hist()
InspectHistogramCell ==
  /\ pc = "saved_with_features"
  /\ HasColumn(rollout_aoi, WEALTH_INDEX)
  /\ pc' = "inspected"
  /\ done' = Append(done, "histogram")
  /\ UNCHANGED <<loginVars, savedPlots, failure>>
  /\ UNCHANGED <<binRuns, gridFile, tileData, aoi, rollout_aoi, features, raw_features, model,
                 rollout_output_with_features, outputFile, outputWithFeaturesFile>>

\* rollout_aoi_plot.plot(column, ...); plt.savefig(file): the map of a column
StaticMap(file, column) ==
  [file |-> file, column |-> column, values |-> ColumnValues(rollout_aoi, column)]

\* plt.savefig(f"{rollout_date}-{COUNTRY_CODE}-predicted-wealth-index.png")
PlotWealthIndexCell ==
  /\ pc = "inspected"
  /\ HasColumn(rollout_aoi, WEALTH_INDEX)
  /\ savedPlots' = Append(savedPlots, StaticMap("predicted-wealth-index.png", WEALTH_INDEX))
  /\ pc' = "plotted_index"
  /\ done' = Append(done, "plot_index")
  /\ UNCHANGED <<loginVars, failure>>
  /\ UNCHANGED <<binRuns, gridFile, tileData, aoi, rollout_aoi, features, raw_features, model,
                 rollout_output_with_features, outputFile, outputWithFeaturesFile>>

\* plt.savefig(f"{rollout_date}-{COUNTRY_CODE}-predicted-wealth-bin.png")
PlotWealthCategoryCell ==
  /\ pc = "plotted_index"
  /\ HasColumn(rollout_aoi, WEALTH_CATEGORY)
  /\ savedPlots' = Append(savedPlots, StaticMap("predicted-wealth-bin.png", WEALTH_CATEGORY))
  /\ pc' = "plotted_category"
  /\ done' = Append(done, "plot_category")
  /\ UNCHANGED <<loginVars, failure>>
  /\ UNCHANGED <<binRuns, gridFile, tileData, aoi, rollout_aoi, features, raw_features, model,
                 rollout_output_with_features, outputFile, outputWithFeaturesFile>>

\* how many times the feature-split cell has completed
SplitRuns == Cardinality({i \in 1..Len(done) : done[i] = "feature_split"})

\* the feature-split cell executed again, on the features it has rebound
RerunSplitFeaturesCell ==
  /\ pc = "split"
  /\ SplitRuns < MaxSplitRuns
  /\ raw_features' = RawFeaturesOf(features)
  /\ features' = ScaledFeaturesOf(features)
  /\ done' = Append(done, "feature_split")
  /\ UNCHANGED <<loginVars, savedPlots, failure>>
  /\ UNCHANGED <<pc, binRuns, gridFile, tileData, aoi, rollout_aoi, model,
                 rollout_output_with_features, outputFile, outputWithFeaturesFile>>

Next ==
  \/ ReadGridCell
  \/ GenerateFeaturesCell
  \/ SplitFeaturesCell
  \/ LoadModelCell
  \/ PredictCell
  \/ BinningCell
  \/ RerunBinningCell
  \/ SaveOutputCell
  \/ SaveWithFeaturesCell

Spec == Init /\ [][Next]_vars

(* ------------ the notebook with the split cell re-executed ------------- *)
NextResplit == Next \/ RerunSplitFeaturesCell

SpecResplit == Init /\ [][NextResplit]_vars

(* ------------- one run of the notebook from its first cell ------------- *)
InitRun ==
  /\ pc = "init"
  /\ environ \in {[EOG_USER |-> <<"alice">>, EOG_PASSWORD |-> <<"s3cret">>],
                   [EOG_USER |-> <<"alice">>, EOG_PASSWORD |-> <<>>]}
  /\ username = <<>>
  /\ password = <<>>
  /\ prompts = <<>>
  /\ tokenRequests = <<>>
  /\ done = <<>>
  /\ gridFile \in GridFiles(MaxRows)
  /\ NothingLoaded

\* every cell once, top to bottom, each with the ways it can raise
NextRun ==
  \/ GetUsername
  \/ GetPassword
  \/ GetAccessToken
  \/ CredentialsRejected
  \/ ReadGridCell
  \/ GridFileMissing
  \/ GenerateFeaturesCell
  \/ SplitFeaturesCell
  \/ LoadModelCell
  \/ LoadOtherModelCell
  \/ ModelFileMissing
  \/ PredictCell
  \/ BinningCell
  \/ SaveOutputCell
  \/ SaveOutputFails
  \/ SaveWithFeaturesCell
  \/ SaveWithFeaturesFails
  \/ InspectHistogramCell
  \/ PlotWealthIndexCell
  \/ PlotWealthCategoryCell

SpecRun == InitRun /\ [][NextRun]_vars

(* --------------- the binning cell on larger score columns -------------- *)
\* The state after the prediction cell for a grid of n tiles whose feature
\* vectors differ pairwise, so that the model can give the rows any scores.
PredictedState(n, m) ==
  \E file \in {GridFile([i \in 1..n |-> i])} :
  \E grid \in {ReadFile(file)} :
  \E data \in {[q \in 1..n |-> [c \in Range(RawFeatureNames) |-> q - 1]]} :
  \E feats \in {GenerateFeatures(grid, data)} :
  \E scaled \in {ScaledFeaturesOf(feats)} :
     /\ gridFile = file
     /\ tileData = data
     /\ aoi = grid
     /\ raw_features = RawFeaturesOf(feats)
     /\ features = scaled
     /\ model = m
     /\ rollout_aoi = PredictFrame(grid, m, scaled)

\* score columns of n rows that rise or fall along the rows, ties included
MonotoneScores(n) ==
  {s \in [1..n -> ModelOutputs] :
     \/ \A i \in 1..(n - 1) : s[i] <= s[i + 1]
     \/ \A i \in 1..(n - 1) : s[i] >= s[i + 1]}

\* the scaled feature vector of row i of PredictedState(n, _)
VectorOfRow(n, i) == <<[n |-> i - 1, d |-> IF n = 1 THEN 1 ELSE n - 1]>>

InitBin ==
  /\ pc = "predicted"
  /\ LoggedIn
  /\ savedPlots = <<>>
  /\ done = <<"credentials", "grid_load", "feature_generation", "feature_split",
              "model_load", "inference">>
  /\ failure = ""
  /\ rollout_output_with_features = NoFrame
  /\ outputFile = <<>>
  /\ outputWithFeaturesFile = <<>>
  /\ binRuns = 0
  /\ \E n \in 1..MaxBinRows :
       \E scores \in MonotoneScores(n) :
         PredictedState(n, [v \in {VectorOfRow(n, i) : i \in 1..n} |-> scores[v[1].n + 1]])

NextBin == BinningCell \/ RerunBinningCell

SpecBin == InitBin /\ [][NextBin]_vars

(* ------------------------------ properties ----------------------------- *)
InputRows == Len(gridFile.features)

Scores == ColumnValues(rollout_aoi, WEALTH_INDEX)

Labels == ColumnValues(rollout_aoi, WEALTH_CATEGORY)

ScoresDistinct ==
  \A i, j \in 1..Len(Scores) : i # j => Scores[i] # Scores[j]

\* rows carrying the label of bin k
LabelCount(k) == Cardinality({i \in 1..NRows(rollout_aoi) : Labels[i] = WealthLabels[k]})

\* rows whose score is equal to the k-th quintile boundary (none for k = 0)
TiedWithEdge(k) ==
  IF k = 0 THEN 0
  ELSE Cardinality({i \in 1..Len(Scores) : 5 * Scores[i] = Quintile5(Scores, k)})

\* the order A > B > C > D > E of the labels
LabelRank(l) ==
  CASE l = "E" -> 1 [] l = "D" -> 2 [] l = "C" -> 3 [] l = "B" -> 4 [] l = "A" -> 5

\* the two tables have the same index, the same set of columns and, row by
\* row, the same value in every column
SameTable(a, b) ==
  /\ a.index = b.index
  /\ Range(a.columns) = Range(b.columns)
  /\ Len(a.columns) = Len(b.columns)
  /\ a.data = b.data

InputKeys == {gridFile.features[i].properties[QUADKEY] : i \in 1..InputRows}

InputColumns == Range(gridFile.properties) \cup {GEOMETRY}

FileKeys(file) == [i \in 1..Len(file.features) |-> file.features[i].properties[QUADKEY]]

\* one row per quadkey of the input grid
OnePerKey(keys) ==
  /\ \A i, j \in 1..Len(keys) : i # j => keys[i] # keys[j]
  /\ Range(keys) = InputKeys

\* the split cell has run
SplitDone == raw_features # NoFrame

GeneratedColumns ==
  Range(RawFeatureNames) \cup {ScaledName(c) : c \in Range(RawFeatureNames)}

\* the min-max scaling over the grid of the raw value the datasets hold for tile q
ExpectedScaled(q, c) ==
  LET all == {tileData[k][c] : k \in InputKeys}
      lo == CHOOSE m \in all : \A v \in all : m <= v
      hi == CHOOSE m \in all : \A v \in all : m >= v
  IN [n |-> tileData[q][c] - lo, d |-> IF hi = lo THEN 1 ELSE hi - lo]

\* C1: once the prediction cell has run, every row's value in
\* 'Predicted Relative Wealth Index' lies in [0, 1], whatever the model returns.
C1_ScoreInUnitInterval ==
  HasColumn(rollout_aoi, WEALTH_INDEX) =>
    \A i \in 1..NRows(rollout_aoi) : 0 <= Scores[i] /\ Scores[i] <= One

\* C2: after the binning cell the five labels split the rows into
\* equal-frequency bins: with pairwise distinct scores every label is carried by
\* floor(N/5) or ceil(N/5) rows; with ties a label has at most ceil(N/5) rows
\* plus the rows tied with its upper boundary and at least floor(N/5) rows minus
\* the rows tied with its lower boundary.
C2_EqualFrequencyBins ==
  pc = "binned" =>
    LET n == NRows(rollout_aoi)
        lo == n \div 5
        hi == (n + 4) \div 5
    IN /\ \A i \in 1..n : Labels[i] \in Range(WealthLabels)
       /\ ScoresDistinct => \A k \in 1..5 : LabelCount(k) \in {lo, hi}
       /\ \A k \in 1..5 :
            /\ LabelCount(k) <= hi + TiedWithEdge(k)
            /\ LabelCount(k) >= lo - TiedWithEdge(k - 1)

\* a labelled grid of at least five rows with distinct scores: all five labels occur
C2_Witness ==
  /\ pc = "binned"
  /\ NRows(rollout_aoi) >= 5
  /\ ScoresDistinct
  /\ \A k \in 1..5 : LabelCount(k) >= 1

\* a labelled grid with tied scores in which a bin is left empty
C2_TieWitness ==
  /\ pc = "binned"
  /\ ~ScoresDistinct
  /\ \E k \in 1..5 : LabelCount(k) = 0 /\ NRows(rollout_aoi) >= 5

\* C3: every stage keeps the number of rows of the input grid file: the loaded
\* grid, the feature tables, the annotated grid, the joined grid and both
\* exported files.
C3_RowCountPreserved ==
  /\ aoi # NoFrame => NRows(aoi) = InputRows
  /\ rollout_aoi # NoFrame => NRows(rollout_aoi) = InputRows
  /\ features # NoFrame => NRows(features) = InputRows
  /\ raw_features # NoFrame => NRows(raw_features) = InputRows
  /\ rollout_output_with_features # NoFrame =>
       NRows(rollout_output_with_features) = InputRows
  /\ outputFile # <<>> => Len(outputFile[1].features) = InputRows
  /\ outputWithFeaturesFile # <<>> =>
       Len(outputWithFeaturesFile[1].features) = InputRows

\* both files are written for a grid of several rows
C3_Witness ==
  /\ outputFile # <<>>
  /\ outputWithFeaturesFile # <<>>
  /\ InputRows >= 2

C6_LabelsOrdinal ==
  pc = "binned" =>
    /\ HasColumn(rollout_aoi, WEALTH_CATEGORY)
    /\ \A i \in 1..NRows(rollout_aoi) : Labels[i] \in {"A", "B", "C", "D", "E"}
    /\ \A i, j \in 1..NRows(rollout_aoi) :
         /\ Scores[i] > Scores[j] => LabelRank(Labels[i]) >= LabelRank(Labels[j])
         /\ Scores[i] = Scores[j] => Labels[i] = Labels[j]

\* a labelled grid whose scores fall along the rows, with tied rows
C6_Witness ==
  /\ pc = "binned"
  /\ NRows(rollout_aoi) >= 5
  /\ Scores[1] > Scores[NRows(rollout_aoi)]
  /\ Labels[1] = "A"
  /\ ~ScoresDistinct

\* C7: at every stage the grid holds one row per quadkey of the input grid: the
\* input file, the loaded grid, the annotated grid, the grid with the features
\* joined back and both exported files.
C7_OneRowPerQuadkey ==
  /\ OnePerKey(FileKeys(gridFile))
  /\ aoi # NoFrame => OnePerKey(ColumnValues(aoi, QUADKEY))
  /\ rollout_aoi # NoFrame => OnePerKey(ColumnValues(rollout_aoi, QUADKEY))
  /\ rollout_output_with_features # NoFrame =>
       OnePerKey(ColumnValues(rollout_output_with_features, QUADKEY))
  /\ outputFile # <<>> => OnePerKey(FileKeys(outputFile[1]))
  /\ outputWithFeaturesFile # <<>> => OnePerKey(FileKeys(outputWithFeaturesFile[1]))

\* the second file is written for a grid of three tiles in descending order
C7_Witness ==
  /\ outputWithFeaturesFile # <<>>
  /\ InputRows >= 3
  /\ FileKeys(outputWithFeaturesFile[1])[1] > FileKeys(outputWithFeaturesFile[1])[2]

\* C8: once the features are split, every column of the matrix given to the
\* model has "_scaled" in its name, every value of it lies in [0, 1], and a
\* column whose raw values are not all equal has the minimum 0 and the maximum 1.
C8_ScaledFeaturesOnly ==
  SplitDone =>
    /\ Len(features.columns) >= 1
    /\ \A j \in 1..Len(features.columns) : ContainsScaled(features.columns[j])
    /\ Len(Values(features)) = NRows(features)
    /\ \A i \in 1..NRows(features) : \A j \in 1..Len(features.columns) :
         LET v == Values(features)[i][j]
         IN v.d > 0 /\ 0 <= v.n /\ v.n <= v.d
    /\ \A c \in Range(features.columns) :
         (\E i, j \in 1..NRows(raw_features) :
            raw_features.data[i][RawNameOf(c)] # raw_features.data[j][RawNameOf(c)])
         => /\ \E i \in 1..NRows(features) : features.data[i][c].n = 0
            /\ \E i \in 1..NRows(features) :
                 features.data[i][c].n = features.data[i][c].d

\* the model has predicted from a column with a value strictly between 0 and 1
C8_Witness ==
  /\ pc = "predicted"
  /\ \E i \in 1..NRows(features) : \E c \in Range(features.columns) :
       0 < features.data[i][c].n /\ features.data[i][c].n < features.data[i][c].d

\* C9: the annotated grid and the first exported file hold the columns of the
\* input grid plus only 'Predicted Relative Wealth Index' and 'Predicted Wealth
\* Category (quintile)' (both of them in the file), and every original column
\* of every row has the value that was loaded.
C9_OnlyTwoColumnsAdded ==
  /\ rollout_aoi # NoFrame =>
       /\ InputColumns \subseteq Range(rollout_aoi.columns)
       /\ Range(rollout_aoi.columns) \subseteq
            InputColumns \cup {WEALTH_INDEX, WEALTH_CATEGORY}
       /\ \A i \in 1..NRows(rollout_aoi) : \A c \in InputColumns :
            rollout_aoi.data[i][c] = ReadFile(gridFile).data[i][c]
  /\ outputFile # <<>> =>
       LET f == outputFile[1]
       IN /\ Range(f.properties) =
               Range(gridFile.properties) \cup {WEALTH_INDEX, WEALTH_CATEGORY}
          /\ Len(f.properties) = Len(gridFile.properties) + 2
          /\ Len(f.features) = InputRows
          /\ \A i \in 1..InputRows :
               /\ f.features[i].geometry = gridFile.features[i].geometry
               /\ \A c \in Range(gridFile.properties) :
                    f.features[i].properties[c] = gridFile.features[i].properties[c]

\* the first file has just been written for a grid of several rows
C9_Witness ==
  /\ pc = "saved"
  /\ outputFile # <<>>
  /\ InputRows >= 2

\* C10: the split puts every generated column in exactly one of raw_features
\* and features; the second file holds the columns of the first plus every raw
\* and every scaled feature column, each once, and every row carries the
\* values of the first file and the features computed for its own tile.
C10_FeaturesJoinedBack ==
  /\ SplitDone =>
       /\ Range(raw_features.columns) \cap Range(features.columns) = {}
       /\ Range(raw_features.columns) = Range(RawFeatureNames)
       /\ Range(raw_features.columns) \cup Range(features.columns) = GeneratedColumns
  /\ outputWithFeaturesFile # <<>> =>
       LET f == outputFile[1]
           g == outputWithFeaturesFile[1]
       IN /\ Range(g.properties) = Range(f.properties) \cup GeneratedColumns
          /\ Len(g.properties) = Len(f.properties) + Cardinality(GeneratedColumns)
          /\ Len(g.features) = Len(f.features)
          /\ \A i \in 1..Len(g.features) :
               LET q == g.features[i].properties[QUADKEY]
               IN /\ g.features[i].geometry = f.features[i].geometry
                  /\ \A c \in Range(f.properties) :
                       g.features[i].properties[c] = f.features[i].properties[c]
                  /\ \A c \in Range(RawFeatureNames) :
                       /\ g.features[i].properties[c] = tileData[q][c]
                       /\ g.features[i].properties[ScaledName(c)] = ExpectedScaled(q, c)

\* the second file is written for tiles whose raw features differ
C10_Witness ==
  /\ outputWithFeaturesFile # <<>>
  /\ \E q, r \in InputKeys : \E c \in Range(RawFeatureNames) :
       tileData[q][c] # tileData[r][c]


\* how many times a prompt has been shown
PromptCount(prompt) == Cardinality({i \in 1..Len(prompts) : prompts[i] = prompt})

\* a credential taken from its environment variable: the set variable is used
\* as is without a prompt, the unset one is prompted for exactly once
TakenFrom(value, name, prompt) ==
  IF value = <<>>
    THEN PromptCount(prompt) = 0
    ELSE IF environ[name] # <<>>
           THEN value = environ[name] /\ PromptCount(prompt) = 0
           ELSE PromptCount(prompt) = 1

\* C11: the username comes from EOG_USER and the password from EOG_PASSWORD;
\* a credential is prompted for exactly when its variable is unset, a set
\* variable (the empty string too) is used as is with no prompt, each
\* credential falls back on its own, and a token request is sent only once
\* both credentials have a value, which it carries.
C11_CredentialsFromEnviron ==
  /\ TakenFrom(username, "EOG_USER", "Username?")
  /\ TakenFrom(password, "EOG_PASSWORD", "Password?")
  /\ tokenRequests # <<>> =>
       /\ username # <<>>
       /\ password # <<>>
       /\ tokenRequests = <<[username |-> username[1], password |-> password[1]]>>

\* EOG_USER set to the empty string and EOG_PASSWORD unset: the request is
\* sent with the empty username after the password prompt alone
C11_Witness ==
  /\ environ = [EOG_USER |-> <<"">>, EOG_PASSWORD |-> <<>>]
  /\ username = <<"">>
  /\ prompts = <<"Password?">>
  /\ Len(tokenRequests) = 1
  /\ pc = "start"


\* C12: a failure halts the run: the cell that raised is recorded as failed
\* and not as completed, and from then on no step is taken, so the failed cell
\* is not run again, no later cell runs and no file is written.
C12_FailureHalts ==
  /\ [](failure # "" <=> pc = "failed")
  /\ [](failure # "" => \A i \in 1..Len(done) : done[i] # failure)
  /\ [][failure = "" /\ pc # "failed"]_vars

\* the second export raised after the join: the first file exists, the second
\* does not, and the run has stopped
C12_Witness ==
  /\ pc = "failed"
  /\ failure = "export_with_features"
  /\ outputFile # <<>>
  /\ rollout_output_with_features # NoFrame
  /\ outputWithFeaturesFile = <<>>
  /\ savedPlots = <<>>

\* the cells of the notebook from top to bottom
CellOrder ==
  <<"credentials", "grid_load", "feature_generation", "feature_split", "model_load",
    "inference", "binning", "export", "export_with_features", "histogram",
    "plot_index", "plot_category">>

IsPrefix(s, t) == Len(s) <= Len(t) /\ \A i \in 1..Len(s) : s[i] = t[i]

\* every row of the input grid has a score and a category in the grid
EveryRowScoredAndLabelled ==
  /\ HasColumn(rollout_aoi, WEALTH_INDEX)
  /\ HasColumn(rollout_aoi, WEALTH_CATEGORY)
  /\ NRows(rollout_aoi) = InputRows
  /\ \A i \in 1..InputRows :
       /\ rollout_aoi.data[i][WEALTH_INDEX] \in ModelOutputs
       /\ rollout_aoi.data[i][WEALTH_CATEGORY] \in Range(WealthLabels)

\* every feature of an exported file carries a score and a category
FileScoredAndLabelled(file) ==
  /\ Len(file.features) = InputRows
  /\ \A i \in 1..Len(file.features) :
       /\ {WEALTH_INDEX, WEALTH_CATEGORY} \subseteq DOMAIN file.features[i].properties
       /\ file.features[i].properties[WEALTH_CATEGORY] \in Range(WealthLabels)

\* C13: the cells complete in the one order credentials, grid load, feature
\* generation (and split), model load, inference, binning, the two exports,
\* the plots; each completes at most once and only after its predecessor, so
\* a file is written or a map saved only when every row has its score and
\* its category, which the file or map then carries.
C13_StagesInOrder ==
  /\ IsPrefix(done, CellOrder)
  /\ (outputFile # <<>> \/ outputWithFeaturesFile # <<>> \/ savedPlots # <<>>) =>
       EveryRowScoredAndLabelled
  /\ outputFile # <<>> => FileScoredAndLabelled(outputFile[1])
  /\ outputWithFeaturesFile # <<>> =>
       outputFile # <<>> /\ FileScoredAndLabelled(outputWithFeaturesFile[1])
  /\ savedPlots # <<>> =>
       /\ outputFile # <<>> /\ outputWithFeaturesFile # <<>>
       /\ \A k \in 1..Len(savedPlots) : Len(savedPlots[k].values) = InputRows

\* a run that went through every cell: both files and both maps exist
C13_Witness ==
  /\ pc = "plotted_category"
  /\ done = CellOrder
  /\ outputFile # <<>>
  /\ outputWithFeaturesFile # <<>>
  /\ Len(savedPlots) = 2
  /\ InputRows >= 2


\* the scaled feature vector of tile q, computed from what the datasets hold
ExpectedVector(q) ==
  [j \in 1..Len(RawFeatureNames) |-> ExpectedScaled(q, RawFeatureNames[j])]

\* row i of a table holds the scaled features of the tile in row i of the grid
FeatureRowOfOwnTile(df, i) ==
  \A c \in Range(RawFeatureNames) :
    df.data[i][ScaledName(c)] = ExpectedScaled(rollout_aoi.data[i][QUADKEY], c)

\* C14: the score of a tile is the model's output for that tile's own feature
\* vector: the feature table has the grid's index and row order, row i of it
\* holding the features of the tile whose quadkey is in row i of the grid; the
\* score in row i is the model's output for that vector; and the joined table
\* puts on each row the score and the features of the row's own quadkey.
C14_ScoreOfOwnFeatures ==
  /\ features # NoFrame =>
       /\ features.index = rollout_aoi.index
       /\ \A i \in 1..NRows(features) : FeatureRowOfOwnTile(features, i)
  /\ HasColumn(rollout_aoi, WEALTH_INDEX) =>
       \A i \in 1..NRows(rollout_aoi) :
         /\ Values(features)[i] = ExpectedVector(rollout_aoi.data[i][QUADKEY])
         /\ rollout_aoi.data[i][WEALTH_INDEX] =
              model[ExpectedVector(rollout_aoi.data[i][QUADKEY])]
  /\ rollout_output_with_features # NoFrame =>
       \A i \in 1..NRows(rollout_output_with_features) :
         LET row == rollout_output_with_features.data[i]
         IN /\ row[QUADKEY] = rollout_aoi.data[i][QUADKEY]
            /\ row[WEALTH_INDEX] = model[ExpectedVector(row[QUADKEY])]
            /\ \A c \in Range(RawFeatureNames) :
                 row[ScaledName(c)] = ExpectedScaled(row[QUADKEY], c)

\* the features are joined back on a grid listed in descending quadkey order
\* whose first and last tiles have different features and different scores
C14_Witness ==
  /\ rollout_output_with_features # NoFrame
  /\ InputRows >= 2
  /\ rollout_aoi.data[1][QUADKEY] > rollout_aoi.data[InputRows][QUADKEY]
  /\ Values(features)[1] # Values(features)[InputRows]
  /\ Scores[1] # Scores[InputRows]


\* C15: executing the feature-split cell again, without generating the
\* features again, leaves raw_features and features with the columns they had
\* after the first execution, so that the second file holds every raw feature
\* column.
C15_SplitIdempotent ==
  /\ [][RerunSplitFeaturesCell =>
          /\ raw_features'.columns = raw_features.columns
          /\ features'.columns = features.columns]_vars
  /\ [](outputWithFeaturesFile # <<>> =>
          Range(RawFeatureNames) \subseteq Range(outputWithFeaturesFile[1].properties))

====
